---- MODULE Spec2Model ----
(***************************************************************************)
(* WorkspacesListRow (src/pages/workspace/WorkspacesListRow.tsx): one row  *)
(* of the workspaces list.  The model covers the render function (layout   *)
(* selection, owner resolution, type icon / label mapping) and the         *)
(* three-dots-menu anchor position, which is React state updated from the  *)
(* callback of measureInWindow.                                            *)
(*                                                                         *)
(* Optional values are sequences of length 0 or 1 (<<>> is undefined).     *)
(***************************************************************************)
EXTENDS Integers, Sequences, FiniteSets, TLC

VARIABLES
    mounted,                    \* a row instance is mounted
    inst,                       \* id of the instance mounted last (0: none yet)
    props,                      \* props of the last render of the mounted instance
    threeDotsMenuPosition,      \* useState, line 92: live instance id -> AnchorPosition
    threeDotsMenuContainerRef,  \* useRef, line 93: .current of the mounted instance
    memo,                       \* useMemo cache of userFriendlyWorkspaceType, line 97
    tree,                       \* committed render output of the mounted instance
    touch,                      \* press on a ThreeDotsMenu icon whose handler has not run yet
    pending,                    \* measureInWindow requests in flight, in issue order
    nextId,                     \* number of measureInWindow requests issued so far
    settled,                    \* the requests no longer in flight, in the order they left: called back or dropped
    lastFired,                  \* the callback that ran last: its instance and the rectangle reported
    error                       \* an exception escaped a handler

vars == <<mounted, inst, props, threeDotsMenuPosition, threeDotsMenuContainerRef,
          memo, tree, touch, pending, nextId, settled, lastFired, error>>

----------------------------------------------------------------------------
(* Bounds *)

MaxInstances == 2   \* mounts of the row
MaxTriggers == 2    \* measureInWindow requests issued over a run

----------------------------------------------------------------------------
(* Input domains *)

Titles == {"Acme"}

\* ownerAccountID?: number
OwnerAccountIDs == {<<>>, <<0>>, <<7>>, <<42>>}

\* the three members of CONST.POLICY.TYPE the prop admits, and one it does not
WorkspaceTypes == {"free", "corporate", "team", "personal"}

\* layoutWidth?: ValueOf<typeof CONST.LAYOUT_WIDTH>
LayoutWidths == {<<>>, <<"none">>, <<"narrow">>, <<"wide">>}

\* brickRoadIndicator?: ValueOf<typeof CONST.BRICK_ROAD_INDICATOR_STATUS>
BrickRoadIndicators == {<<>>, <<"info">>, <<"error">>}

MenuItemLists == {<<"delete">>}

Props == [title : Titles, ownerAccountID : OwnerAccountIDs, workspaceType : WorkspaceTypes,
          layoutWidth : LayoutWidths, brickRoadIndicator : BrickRoadIndicators,
          menuItems : MenuItemLists]

\* rectangles measureInWindow may report
Rects == {[x |-> 10, y |-> 20, width |-> 30, height |-> 40],
          [x |-> 1, y |-> 2, width |-> 3, height |-> 4]}

----------------------------------------------------------------------------
(* Collaborators *)

\* withCurrentUserPersonalDetails supplies the viewer
currentUserPersonalDetails == [accountID |-> 42]

\* the personal details store read by PersonalDetailsUtils
allPersonalDetails ==
    (0 :> [accountID |-> 0, displayName |-> "", login |-> "zero@x.com", avatar |-> "avatar0"])
 @@ (42 :> [accountID |-> 42, displayName |-> "Jane Doe", login |-> "jane@x.com", avatar |-> "avatar42"])

\* PersonalDetailsUtils.getPersonalDetailsByIDs(accountIDs, currentUserAccountID):
\* the details of the ids the store knows, in order
RECURSIVE getPersonalDetailsByIDs(_, _)
getPersonalDetailsByIDs(accountIDs, currentUserAccountID) ==
    IF accountIDs = <<>> THEN <<>>
    ELSE (IF Head(accountIDs) \in DOMAIN allPersonalDetails
             THEN <<allPersonalDetails[Head(accountIDs)]>>
             ELSE <<>>)
         \o getPersonalDetailsByIDs(Tail(accountIDs), currentUserAccountID)

\* PersonalDetailsUtils.getDisplayNameOrDefault: display name, else login, else a default
getDisplayNameOrDefault(details) ==
    IF details.displayName # "" THEN details.displayName
    ELSE IF details.login # "" THEN details.login
    ELSE "Hidden"

\* useLocalize().translate, for a fixed locale: the phrase is named by its key
translate(key) == key

----------------------------------------------------------------------------
(* Render *)

\* JavaScript truthiness of an optional number
TruthyNumber(n) == n # <<>> /\ n[1] # 0

\* JavaScript truthiness of an optional string
TruthyString(s) == s # <<>> /\ s[1] # ""

\* layoutWidth = CONST.LAYOUT_WIDTH.NONE as the default of the parameter
layoutWidthOrDefault(p) == IF p.layoutWidth = <<>> THEN "none" ELSE p.layoutWidth[1]

workspaceTypeIcon(workspaceType) ==
    CASE workspaceType = "free" -> "Illustrations.HandCard"
      [] workspaceType = "corporate" -> "Illustrations.ShieldYellow"
      [] workspaceType = "team" -> "Illustrations.Mailbox"
      [] OTHER -> "Illustrations.Mailbox"

\* the function passed to useMemo
computeUserFriendlyWorkspaceType(workspaceType) ==
    CASE workspaceType = "free" -> translate("workspace.type.free")
      [] workspaceType = "corporate" -> translate("workspace.type.control")
      [] workspaceType = "team" -> translate("workspace.type.collect")
      [] OTHER -> translate("workspace.type.free")

NoMemo == [deps |-> <<>>, value |-> ""]

\* variant of useMemo with an empty dependency list: computed once per instance
useMemoStale(m, workspaceType) ==
    IF m.deps = <<>> THEN [deps |-> <<workspaceType>>, value |-> computeUserFriendlyWorkspaceType(workspaceType)]
    ELSE m

\* useMemo(..., [workspaceType, translate]): recomputed on the first render and
\* whenever a dependency changed (translate is stable for a fixed locale)
useMemo(m, workspaceType) ==
    IF m.deps = <<workspaceType>> THEN m
    ELSE [deps |-> <<workspaceType>>, value |-> computeUserFriendlyWorkspaceType(workspaceType)]

\* the arguments of the directory query of a render; <<>> when none is made
ownerLookup(p) ==
    IF TruthyNumber(p.ownerAccountID)
    THEN <<[accountIDs |-> <<p.ownerAccountID[1]>>, currentUserAccountID |-> currentUserPersonalDetails.accountID]>>
    ELSE <<>>

\* ownerAccountID && getPersonalDetailsByIDs([ownerAccountID], viewer)[0], as an
\* optional: <<>> stands for every falsy outcome (undefined, 0)
ownerDetails(p) ==
    IF ownerLookup(p) = <<>> THEN <<>>
    ELSE LET found == getPersonalDetailsByIDs(ownerLookup(p)[1].accountIDs, ownerLookup(p)[1].currentUserAccountID)
         IN IF found = <<>> THEN <<>> ELSE <<found[1]>>

Origin == [horizontal |-> 0, vertical |-> 0]

\* the elements BrickRoadIndicatorIcon renders: one Icon, or nothing (null)
BrickRoadIndicatorIcon(brickRoadIndicator) ==
    IF TruthyString(brickRoadIndicator)
    THEN <<[el |-> "Icon", src |-> "Expensicons.DotIndicator",
            fill |-> IF brickRoadIndicator = <<"error">> THEN "theme.danger" ELSE "theme.iconSuccessFill"]>>
    ELSE <<>>

NullOutput == [null |-> TRUE, sections |-> <<>>]

isWide(p) == layoutWidthOrDefault(p) = "wide"

\* variant of isNarrow that holds in every layout
isNarrowAlways(p) == TRUE

isNarrow(p) == layoutWidthOrDefault(p) = "narrow"

\* the row's JSX, lines 119-219: the child Views of the outer View, each the
\* sequence of the elements it holds
RowSections(p, position, label) ==
    LET owner == ownerDetails(p)
    IN  << <<[el |-> "Avatar", source |-> "workspaceIcon", name |-> p.title],
             [el |-> "Text", text |-> p.title]>>
           \o (IF isNarrow(p)
               THEN BrickRoadIndicatorIcon(p.brickRoadIndicator)
                    \o <<[el |-> "ThreeDotsMenu", menuItems |-> p.menuItems, anchorPosition |-> Origin,
                          anchorAlignment |-> <<>>, onIconPress |-> FALSE]>>
               ELSE <<>>),
           IF owner # <<>>
           THEN <<[el |-> "Avatar", source |-> owner[1].avatar, name |-> ""],
                  [el |-> "Text", text |-> getDisplayNameOrDefault(owner[1])],
                  [el |-> "Text", text |-> owner[1].login]>>
           ELSE <<>>,
           <<[el |-> "Icon", src |-> workspaceTypeIcon(p.workspaceType), fill |-> ""],
             [el |-> "Text", text |-> label],
             [el |-> "Text", text |-> translate("workspace.common.plan")]>> >>
        \o (IF isWide(p)
            THEN << BrickRoadIndicatorIcon(p.brickRoadIndicator),
                    <<[el |-> "ThreeDotsMenu", menuItems |-> p.menuItems, anchorPosition |-> position,
                       anchorAlignment |-> <<[horizontal |-> "right", vertical |-> "top"]>>,
                       onIconPress |-> TRUE]>> >>
            ELSE <<>>)

\* variant of WorkspacesListRow without the early return of lines 110-114
WorkspacesListRowNoGuard(p, position, label) ==
    [null |-> FALSE, sections |-> RowSections(p, position, label)]

\* the value WorkspacesListRow returns
WorkspacesListRow(p, position, label) ==
    IF layoutWidthOrDefault(p) = "none" THEN NullOutput
    ELSE [null |-> FALSE, sections |-> RowSections(p, position, label)]

\* React attaches the ref of the View of line 199 when it commits a tree holding it
committedRef(p) == IF layoutWidthOrDefault(p) # "none" /\ isWide(p) THEN "View" ELSE "null"

----------------------------------------------------------------------------
(* State *)

NoProps == [title |-> "Acme", ownerAccountID |-> <<>>, workspaceType |-> "free",
            layoutWidth |-> <<>>, brickRoadIndicator |-> <<>>, menuItems |-> <<"delete">>]

NoTouch == [inst |-> 0, onIconPress |-> FALSE]

Init ==
    /\ mounted = FALSE
    /\ inst = 0
    /\ props = NoProps
    /\ threeDotsMenuPosition = <<>>
    /\ threeDotsMenuContainerRef = "null"
    /\ memo = NoMemo
    /\ tree = NullOutput
    /\ touch = NoTouch
    /\ pending = <<>>
    /\ nextId = 0
    /\ settled = <<>>
    /\ lastFired = <<>>
    /\ error = FALSE

\* one render of the mounted instance and its commit
RenderCommit(p, position, m) ==
    /\ props' = p
    /\ memo' = useMemo(m, p.workspaceType)
    /\ tree' = WorkspacesListRow(p, position, memo'.value)
    /\ threeDotsMenuContainerRef' = committedRef(p)

\* a new instance of the row is mounted: fresh hook state, first render
Mount(p) ==
    /\ ~mounted
    /\ inst < MaxInstances
    /\ mounted' = TRUE
    /\ inst' = inst + 1
    /\ threeDotsMenuPosition' = (inst + 1) :> Origin
    /\ RenderCommit(p, Origin, NoMemo)
    /\ UNCHANGED <<touch, pending, nextId, settled, lastFired, error>>

\* variant of Rerender in which the position does not survive a render
RerenderResetting(p) ==
    /\ mounted
    /\ threeDotsMenuPosition' = inst :> Origin
    /\ RenderCommit(p, Origin, memo)
    /\ UNCHANGED <<mounted, inst, touch, pending, nextId, settled, lastFired, error>>

\* the parent renders the mounted row again, with props p
Rerender(p) ==
    /\ mounted
    /\ RenderCommit(p, threeDotsMenuPosition[inst], memo)
    /\ UNCHANGED <<mounted, inst, threeDotsMenuPosition, touch, pending, nextId, settled, lastFired, error>>

\* the instance is unmounted: its hook state is discarded and its refs detached
Unmount ==
    /\ mounted
    /\ mounted' = FALSE
    /\ props' = NoProps
    /\ threeDotsMenuPosition' = <<>>
    /\ threeDotsMenuContainerRef' = "null"
    /\ memo' = NoMemo
    /\ tree' = NullOutput
    /\ UNCHANGED <<inst, touch, pending, nextId, settled, lastFired, error>>

\* threeDotsMenuContainerRef.current as the closure created by instance i reads it
RefCurrent(i) == IF mounted /\ i = inst THEN threeDotsMenuContainerRef ELSE "null"

\* variant of AnchorOf that takes the top-left corner
AnchorOfTopLeft(r) == [horizontal |-> r.x, vertical |-> r.y]

\* the bottom-right corner of a measured rectangle, lines 203-206
AnchorOf(r) == [horizontal |-> r.x + r.width, vertical |-> r.y + r.height]

\* the ThreeDotsMenu element of a committed tree
MenusOf(t) ==
    {e \in UNION {{s[j] : j \in 1..Len(s)} : s \in {t.sections[i] : i \in 1..Len(t.sections)}} :
        e.el = "ThreeDotsMenu"}

\* the user presses the icon of the row's ThreeDotsMenu
PressIn ==
    /\ mounted
    /\ ~tree.null
    /\ touch = NoTouch
    /\ touch' = [inst |-> inst, onIconPress |-> (CHOOSE e \in MenusOf(tree) : TRUE).onIconPress]
    /\ UNCHANGED <<mounted, inst, props, threeDotsMenuPosition, threeDotsMenuContainerRef,
                   memo, tree, pending, nextId, settled, lastFired, error>>

\* variant of onIconPress with a plain call (no ?.): a null ref throws
onIconPressUnchecked(i) ==
    IF RefCurrent(i) # "null"
    THEN /\ pending' = Append(pending, [id |-> nextId + 1, inst |-> i])
         /\ nextId' = nextId + 1
         /\ error' = error
    ELSE /\ error' = TRUE
         /\ UNCHANGED <<pending, nextId>>

\* variant of onIconPress that measures only when no request is in flight
onIconPressWhenIdle(i) ==
    IF RefCurrent(i) # "null" /\ pending = <<>>
    THEN /\ pending' = Append(pending, [id |-> nextId + 1, inst |-> i])
         /\ nextId' = nextId + 1
         /\ error' = error
    ELSE UNCHANGED <<pending, nextId, error>>

\* onIconPress of the instance i, lines 201-208: measureInWindow is called on the
\* container when the ref holds it, and nothing is done when it does not
onIconPress(i) ==
    IF RefCurrent(i) # "null"
    THEN /\ pending' = Append(pending, [id |-> nextId + 1, inst |-> i])
         /\ nextId' = nextId + 1
         /\ error' = error
    ELSE UNCHANGED <<pending, nextId, error>>

\* ThreeDotsMenu handles the press: it calls onIconPress when it was given one
\* (a press that would issue a request beyond MaxTriggers is left waiting)
PressHandler ==
    /\ touch # NoTouch
    /\ (touch.onIconPress /\ RefCurrent(touch.inst) # "null") => nextId < MaxTriggers
    /\ touch' = NoTouch
    /\ IF touch.onIconPress THEN onIconPress(touch.inst) ELSE UNCHANGED <<pending, nextId, error>>
    /\ UNCHANGED <<mounted, inst, props, threeDotsMenuPosition, threeDotsMenuContainerRef,
                   memo, tree, settled, lastFired>>

RemoveAt(s, k) == SubSeq(s, 1, k - 1) \o SubSeq(s, k + 1, Len(s))

\* variant of the setter that is not bound to one instance
setThreeDotsMenuPositionShared(i, value) ==
    [j \in DOMAIN threeDotsMenuPosition |-> value]

\* setThreeDotsMenuPosition of the instance i: a state update of a live instance;
\* React drops the update of an unmounted one
setThreeDotsMenuPosition(i, value) ==
    IF i \in DOMAIN threeDotsMenuPosition
    THEN [threeDotsMenuPosition EXCEPT ![i] = value]
    ELSE threeDotsMenuPosition

\* variant of MeasureCallback whose update does not render the row again
MeasureCallbackNoRender(k, r) ==
    /\ k \in 1..Len(pending)
    /\ pending' = RemoveAt(pending, k)
    /\ settled' = Append(settled, [id |-> pending[k].id, called |-> TRUE])
    /\ lastFired' = <<[inst |-> pending[k].inst, rect |-> r]>>
    /\ threeDotsMenuPosition' = setThreeDotsMenuPosition(pending[k].inst, AnchorOf(r))
    /\ UNCHANGED <<mounted, inst, props, memo, tree, threeDotsMenuContainerRef, touch, nextId, error>>

\* the host reports rectangle r for the k-th request in flight: the callback of
\* lines 202-207 runs, and the state update renders its instance again when
\* that instance is still mounted
MeasureCallback(k, r) ==
    /\ k \in 1..Len(pending)
    /\ pending' = RemoveAt(pending, k)
    /\ settled' = Append(settled, [id |-> pending[k].id, called |-> TRUE])
    /\ lastFired' = <<[inst |-> pending[k].inst, rect |-> r]>>
    /\ threeDotsMenuPosition' = setThreeDotsMenuPosition(pending[k].inst, AnchorOf(r))
    /\ IF mounted /\ pending[k].inst = inst
       THEN RenderCommit(props, threeDotsMenuPosition'[inst], memo)
       ELSE UNCHANGED <<props, memo, tree, threeDotsMenuContainerRef>>
    /\ UNCHANGED <<mounted, inst, touch, nextId, error>>

\* the host finds the container of the k-th request gone and never calls back
DropMeasurement(k) ==
    /\ k \in 1..Len(pending)
    /\ RefCurrent(pending[k].inst) = "null"
    /\ pending' = RemoveAt(pending, k)
    /\ settled' = Append(settled, [id |-> pending[k].id, called |-> FALSE])
    /\ UNCHANGED <<mounted, inst, props, threeDotsMenuPosition, threeDotsMenuContainerRef,
                   memo, tree, touch, nextId, lastFired, error>>

\* the props that differ from p in at most one field
OneChange(p) ==
    {[p EXCEPT !.title = v] : v \in Titles}
    \cup {[p EXCEPT !.ownerAccountID = v] : v \in OwnerAccountIDs}
    \cup {[p EXCEPT !.workspaceType = v] : v \in WorkspaceTypes}
    \cup {[p EXCEPT !.layoutWidth = v] : v \in LayoutWidths}
    \cup {[p EXCEPT !.brickRoadIndicator = v] : v \in BrickRoadIndicators}
    \cup {[p EXCEPT !.menuItems = v] : v \in MenuItemLists}

Next ==
    \/ \E p \in Props : Mount(p)
    \/ \E p \in OneChange(props) : Rerender(p)
    \/ Unmount
    \/ PressIn
    \/ PressHandler
    \/ \E k \in 1..MaxTriggers, r \in Rects : MeasureCallback(k, r)
    \/ \E k \in 1..MaxTriggers : DropMeasurement(k)

Spec == Init /\ [][Next]_vars

----------------------------------------------------------------------------
(* Properties *)

Rendered == mounted /\ ~tree.null

\* the number of elements of a kind in one section
CountIn(section, kind) == Cardinality({j \in 1..Len(section) : section[j].el = kind})

\* the number of elements of a kind in a whole tree
RECURSIVE CountAll(_, _)
CountAll(sections, kind) ==
    IF sections = <<>> THEN 0
    ELSE CountIn(Head(sections), kind) + CountAll(Tail(sections), kind)

\* the instance whose callback ran last is the mounted one
LastFiredLive == lastFired # <<>> /\ mounted /\ lastFired[1].inst = inst

\* the step runs a measurement callback
CallbackStep == Len(settled') > Len(settled) /\ settled'[Len(settled')].called

\* the step drops a request without calling back
DropStep == Len(settled') > Len(settled) /\ ~settled'[Len(settled')].called

\* C1: when layoutWidth is NONE, given or by default, the render output is
\* null, whatever the other props and the stored anchor position are.
C1_NoneRendersNull ==
    (mounted /\ props.layoutWidth \in {<<>>, <<"none">>}) => tree = NullOutput

C1_Witness ==
    /\ mounted
    /\ props.layoutWidth = <<>>
    /\ threeDotsMenuPosition[inst] # Origin
    /\ props.ownerAccountID = <<42>>
    /\ props.brickRoadIndicator # <<>>
    /\ tree = NullOutput

\* C2: the callback of a measurement that reported (x, y, width, height)
\* replaces the anchor position of its instance by (x + width, y + height),
\* whatever the position was before; (10, 20, 30, 40) gives (40, 60).
C2_CallbackSetsCorner ==
    [][(CallbackStep /\ lastFired'[1].inst \in DOMAIN threeDotsMenuPosition)
        => LET r == lastFired'[1].rect
               now == threeDotsMenuPosition'[lastFired'[1].inst]
           IN /\ now = [horizontal |-> r.x + r.width, vertical |-> r.y + r.height]
              /\ (r = [x |-> 10, y |-> 20, width |-> 30, height |-> 40]
                    => now = [horizontal |-> 40, vertical |-> 60])]_vars

C2_Witness ==
    /\ Len(settled) >= 2
    /\ \A k \in 1..Len(settled) : settled[k].called
    /\ LastFiredLive
    /\ lastFired[1].rect = [x |-> 10, y |-> 20, width |-> 30, height |-> 40]
    /\ threeDotsMenuPosition[inst] = [horizontal |-> 40, vertical |-> 60]

\* C3: the anchor position of an instance is the origin when it is mounted and
\* changes only in a step that runs a measurement callback of that instance
\* (not in re-renders, prop changes or presses); so it is always the origin or
\* the bottom-right corner of a reported rectangle.
C3_AnchorChangesOnlyInCallback ==
    /\ [](mounted => \/ threeDotsMenuPosition[inst] = Origin
                     \/ \E r \in Rects : threeDotsMenuPosition[inst] =
                            [horizontal |-> r.x + r.width, vertical |-> r.y + r.height])
    /\ [][/\ (~mounted /\ mounted') => threeDotsMenuPosition'[inst'] = Origin
          /\ (mounted /\ mounted' /\ threeDotsMenuPosition'[inst] # threeDotsMenuPosition[inst])
                => (CallbackStep /\ lastFired'[1].inst = inst)]_vars

C3_Witness ==
    /\ mounted
    /\ props.layoutWidth = <<"narrow">>
    /\ threeDotsMenuPosition[inst] # Origin
    /\ touch # NoTouch

C5_CallbackAfterUnmountIsNoOp ==
    [][/\ (CallbackStep /\ lastFired'[1].inst \notin DOMAIN threeDotsMenuPosition)
            => (threeDotsMenuPosition' = threeDotsMenuPosition /\ tree' = tree /\ props' = props)
       /\ (~mounted /\ mounted') => threeDotsMenuPosition' = (inst' :> Origin)]_vars

C5_Witness ==
    /\ mounted
    /\ inst = 2
    /\ lastFired # <<>>
    /\ lastFired[1].inst = 1
    /\ lastFired[1].rect = [x |-> 10, y |-> 20, width |-> 30, height |-> 40]
    /\ threeDotsMenuPosition[inst] = [horizontal |-> 4, vertical |-> 6]

\* C6: the type section shows HandCard / free for FREE, ShieldYellow / control
\* for CORPORATE, Mailbox / collect for TEAM and Mailbox / free for any other
\* value, both taken from the workspaceType of the render.
C6_TypeIconAndLabel ==
    Rendered =>
        LET wt == props.workspaceType
            section == tree.sections[3]
        IN /\ section[1].el = "Icon" /\ section[2].el = "Text"
           /\ <<section[1].src, section[2].text>> =
                CASE wt = "free" -> <<"Illustrations.HandCard", "workspace.type.free">>
                  [] wt = "corporate" -> <<"Illustrations.ShieldYellow", "workspace.type.control">>
                  [] wt = "team" -> <<"Illustrations.Mailbox", "workspace.type.collect">>
                  [] OTHER -> <<"Illustrations.Mailbox", "workspace.type.free">>

C6_Witness ==
    /\ Rendered
    /\ props.workspaceType = "personal"
    /\ tree.sections[3][1].src = "Illustrations.Mailbox"
    /\ tree.sections[3][2].text = "workspace.type.free"
    /\ threeDotsMenuPosition[inst] # Origin

\* C7: in a NARROW or WIDE render the owner section is empty when
\* ownerAccountID is absent, and for every ownerAccountID that is given the
\* directory is queried with it and the viewer's id, the owner section showing
\* the display name and the login when the directory knows the id.
C7_OwnerSectionForEveryId ==
    Rendered =>
        /\ props.ownerAccountID = <<>> => tree.sections[2] = <<>>
        /\ props.ownerAccountID # <<>> =>
            LET id == props.ownerAccountID[1] IN
            /\ ownerLookup(props) = <<[accountIDs |-> <<id>>,
                                      currentUserAccountID |-> currentUserPersonalDetails.accountID]>>
            /\ id \in DOMAIN allPersonalDetails =>
                /\ Len(tree.sections[2]) = 3
                /\ tree.sections[2][2].text = getDisplayNameOrDefault(allPersonalDetails[id])
                /\ tree.sections[2][3].text = allPersonalDetails[id].login

\* C8: a NARROW render has the indicator and the ThreeDotsMenu inside the
\* identity section and no trailing sections; a WIDE render has neither
\* inside the identity section and both as the fourth and fifth section; the
\* ThreeDotsMenu is there exactly once, the indicator once when
\* brickRoadIndicator is given and not at all otherwise.
C8_OneArrangement ==
    Rendered =>
        LET s == tree.sections
            dots == IF props.brickRoadIndicator = <<>> THEN 0 ELSE 1
        IN /\ props.layoutWidth \in {<<"narrow">>, <<"wide">>}
           /\ CountAll(s, "ThreeDotsMenu") = 1
           /\ CountAll(s, "Icon") = 1 + dots
           /\ props.layoutWidth = <<"narrow">> =>
                /\ Len(s) = 3
                /\ CountIn(s[1], "ThreeDotsMenu") = 1
                /\ CountIn(s[1], "Icon") = dots
           /\ props.layoutWidth = <<"wide">> =>
                /\ Len(s) = 5
                /\ CountIn(s[1], "ThreeDotsMenu") = 0
                /\ CountIn(s[1], "Icon") = 0
                /\ Len(s[4]) = dots
                /\ CountIn(s[4], "Icon") = dots
                /\ Len(s[5]) = 1
                /\ s[5][1].el = "ThreeDotsMenu"

C8_Witness ==
    /\ Rendered
    /\ props.layoutWidth = <<"wide">>
    /\ props.brickRoadIndicator = <<"error">>
    /\ Len(tree.sections) = 5
    /\ tree.sections[4] # <<>>
    /\ tree.sections[5][1].el = "ThreeDotsMenu"

\* C9 as stated: in every rendered row, NARROW or WIDE, the ThreeDotsMenu
\* has the measuring onIconPress, the current anchor position and the
\* right / top alignment.
C9_EveryMenuMeasures ==
    Rendered =>
        \A m \in MenusOf(tree) :
            /\ m.onIconPress
            /\ m.anchorPosition = threeDotsMenuPosition[inst]
            /\ m.anchorAlignment = <<[horizontal |-> "right", vertical |-> "top"]>>

\* C9 amended: in a WIDE row the ThreeDotsMenu has the measuring onIconPress,
\* the current anchor position and the right / top alignment, and each press
\* handled while the row is WIDE issues one measurement request; in a NARROW
\* row the menu has no onIconPress, the origin as its anchor and no alignment,
\* and a press on it issues nothing.
C9_WideMenuMeasures ==
    /\ [](Rendered =>
            \A m \in MenusOf(tree) :
                IF props.layoutWidth = <<"wide">>
                THEN /\ m.onIconPress
                     /\ m.anchorPosition = threeDotsMenuPosition[inst]
                     /\ m.anchorAlignment = <<[horizontal |-> "right", vertical |-> "top"]>>
                ELSE /\ ~m.onIconPress
                     /\ m.anchorPosition = Origin
                     /\ m.anchorAlignment = <<>>)
    /\ [][(touch # NoTouch /\ touch' = NoTouch) =>
            IF touch.onIconPress /\ mounted /\ touch.inst = inst /\ props.layoutWidth = <<"wide">>
            THEN pending' = Append(pending, [id |-> nextId + 1, inst |-> inst])
            ELSE touch.onIconPress \/ pending' = pending]_vars

C9_Witness ==
    /\ Rendered
    /\ props.layoutWidth = <<"wide">>
    /\ threeDotsMenuPosition[inst] # Origin
    /\ pending # <<>>
    /\ pending[Len(pending)].inst = inst
    /\ \A m \in MenusOf(tree) : m.anchorPosition = threeDotsMenuPosition[inst]

\* C10: a pending measurement blocks nothing: with requests in flight the row
\* can be rendered again with any layoutWidth and a handled press issues a further
\* request; and whichever request is called back, the anchor position of the
\* mounted instance is the corner reported by its callback that ran last.
C10_FireAndForget ==
    /\ (mounted /\ pending # <<>>) =>
            /\ \A lw \in LayoutWidths : ENABLED Rerender([props EXCEPT !.layoutWidth = lw])
            /\ (touch.onIconPress /\ RefCurrent(touch.inst) # "null" /\ nextId < MaxTriggers)
                    => ENABLED (PressHandler /\ Len(pending') = Len(pending) + 1)
    /\ LastFiredLive =>
            threeDotsMenuPosition[inst] = [horizontal |-> lastFired[1].rect.x + lastFired[1].rect.width,
                                           vertical |-> lastFired[1].rect.y + lastFired[1].rect.height]

C10_Witness ==
    /\ settled = <<[id |-> 2, called |-> TRUE], [id |-> 1, called |-> TRUE]>>
    /\ LastFiredLive
    /\ lastFired[1].rect = [x |-> 1, y |-> 2, width |-> 3, height |-> 4]
    /\ threeDotsMenuPosition[inst] = [horizontal |-> 4, vertical |-> 6]

====
